---- MODULE Spec2Model ----
(***************************************************************************)
(* Model of src/main.py: region generation (generate_layered_map),         *)
(* building placement (place_buildings_on_map) and the player / scene      *)
(* state machine of run_pygame_visualizer.                                 *)
(*                                                                         *)
(* Three specifications share the module's variables:                      *)
(*   SpecGen   - generate_layered_map, one run from its parameters         *)
(*   SpecPlace - place_buildings_on_map, one run on an input grid          *)
(*   SpecGame  - the main loop of run_pygame_visualizer after set-up       *)
(* A specification leaves the variables of the other two at idle values.   *)
(***************************************************************************)
EXTENDS Integers, Sequences, FiniteSets, TLC

VARIABLES
  \* ---- generate_layered_map ----
  gen_pc,               \* position in generate_layered_map
  rows, cols,           \* its parameters
  map_settings,         \* config: region size, path ceiling, attempt budget
  super_grid,           \* the zone grid that is rasterized
  current_super_grid,   \* the zone grid of the attempt in progress
  attempts,             \* loop counter of the retry loop
  zones_left,           \* iterations left of "for _ in range(num_zones_to_create)"
  gen_message,          \* what lines 124-127 printed
  coordinate_grid,      \* returned walkability grid
  tile_map,             \* returned tile-type grid
  attempt_log,          \* history: path-cell count of every finished attempt
  last_attempt_grid,    \* history: zone grid of the last finished attempt
  accepted,             \* history: the loop was left through "break"
  \* ---- place_buildings_on_map (works on coordinate_grid, rows, cols) ----
  place_pc,                 \* position in place_buildings_on_map
  num_buildings,            \* its parameter
  possible_top_lefts,       \* shuffled candidates not yet visited by the loop
  placed_buildings_objects, \* the records collected so far
  input_grid,               \* history: coordinate_grid when the function was called
  \* ---- run_pygame_visualizer: globals and main loop ----
  game_pc,              \* "running" while the main loop runs
  running,              \* the loop flag of line 611
  pending,              \* events of this frame's queue not yet handled
  player,               \* the Player object
  current_map_data,     \* the active scene: grid, tiles, type, exit_point
  outdoor_map_data,     \* the saved outdoor scene
  placed_buildings_data,\* the building records of the active outdoor scene
  interior_settings,    \* config: interior_rows, interior_cols
  game_settings,        \* config: the two movement cooldowns
  pre_entry,            \* history: position and scene just before the last entry
  ticks_since_switch,   \* history: updates since the last scene switch, capped
  dropped,              \* history: the events the break of line 633 left unhandled
                        \* in the frame that has just ended
  \* ---- one frontier loop of generate_layered_map, iteration by iteration ----
  blob_pc,              \* "growing" while the loop of line 94 runs
  blob_dims,            \* <<super_rows, super_cols>>
  blob_start,           \* <<start_r, start_c>>
  blob_target,          \* blob_size, the target drawn at line 88
  blob                  \* q, visited, count and the cells painted so far

genVars == <<gen_pc, rows, cols, map_settings, super_grid, current_super_grid,
             attempts, zones_left, gen_message, coordinate_grid, tile_map,
             attempt_log, last_attempt_grid, accepted>>

placeVars == <<place_pc, num_buildings, possible_top_lefts, placed_buildings_objects,
               input_grid>>

gameVars == <<game_pc, running, pending, player, current_map_data, outdoor_map_data,
              placed_buildings_data, interior_settings, game_settings, pre_entry,
              ticks_since_switch, dropped>>

\* the variables of generate_layered_map that place_buildings_on_map does not share
genRest == <<gen_pc, map_settings, super_grid, current_super_grid, attempts, zones_left,
             gen_message, attempt_log, last_attempt_grid, accepted>>

blobVars == <<blob_pc, blob_dims, blob_start, blob_target, blob>>

vars == <<genVars, placeVars, gameVars, blobVars>>

----------------------------------------------------------------------------
(* Bounds of the model                                                     *)
MaxRows == 2
MaxCols == 4
MaxAttemptBudget == 2
RegionSizes == {2, 3}
PathCeilings == {0, 50}          \* max_path_percentage, in percent
\* tallgrass_probability and flowers_probability, in percent
DecorationChances == {<<50, 100>>, <<0, 0>>}

PlaceMaxRows == 3
PlaceMaxCols == 2
BuildingCounts == {0, 1, 2}       \* num_buildings of the configuration

\* building_definitions of the configuration: footprints in tiles
BuildingDefs ==
  [hut |-> [width_tiles |-> 1, height_tiles |-> 1],
   shop |-> [width_tiles |-> 2, height_tiles |-> 1]]

GameRows == 3
GameCols == 2
MaxEvents == 2                   \* events delivered in one frame
MaxInterior == 4                 \* interior dimensions the interior generator is tried on
InteriorSizes == {2, 3}          \* interior_rows, interior_cols
MoveCooldowns == {[player_move_cooldown_initial |-> 2, player_move_cooldown_subsequent |-> 1]}

(* Constants of the program                                                *)
MinZones == 5
MaxZones == 12
MinBlob == 10
MaxBlob == 35

max_interaction_cooldown == 20

LAKE == "lake"
FOREST == "forest"
PATH == "path"
NoGrid == <<>>

----------------------------------------------------------------------------
(* generate_layered_map                                                    *)

SuperRows == rows \div map_settings.super_grid_region_size
SuperCols == cols \div map_settings.super_grid_region_size

Cells(nr, nc) == (0 .. nr - 1) \X (0 .. nc - 1)

FullGrid(nr, nc, v) == [cell \in Cells(nr, nc) |-> v]

\* lines 107-111: the in-bounds neighbours, in the order up, down, left, right
Neighbors(r, c, sr, sc) ==
  (IF r > 0 THEN << <<r - 1, c>> >> ELSE <<>>) \o
  (IF r < sr - 1 THEN << <<r + 1, c>> >> ELSE <<>>) \o
  (IF c > 0 THEN << <<r, c - 1>> >> ELSE <<>>) \o
  (IF c < sc - 1 THEN << <<r, c + 1>> >> ELSE <<>>)

\* random.shuffle: every ordering of the list
Shuffles(s) ==
  LET n == Len(s)
      perms == {p \in [1 .. n -> 1 .. n] : \A i, j \in 1 .. n : p[i] = p[j] => i = j}
  IN {[i \in 1 .. n |-> s[p[i]]] : p \in perms}

\* lines 90-92
BlobInit(start_r, start_c) ==
  [q |-> << <<start_r, start_c>> >>, visited |-> {}, count |-> 0, painted |-> {}]

\* variant of BlobActive: the painted count is not looked at
BlobActive_NoTarget(b, blob_size) == b.q # <<>>

\* line 94: the loop condition
BlobActive(b, blob_size) == b.q # <<>> /\ b.count < blob_size

\* lines 95-113: one iteration of the frontier loop, for every coin flip and shuffle
BlobIterations(b, sr, sc) ==
  LET cell == Head(b.q)
      rest == Tail(b.q)
      r == cell[1]
      c == cell[2]
  IN IF cell \in b.visited
     THEN {[b EXCEPT !.q = rest]}
     ELSE IF 0 <= r /\ r < sr /\ 0 <= c /\ c < sc
          THEN {[q |-> rest, visited |-> b.visited \cup {cell},
                 count |-> b.count + 1, painted |-> b.painted \cup {cell}]}
               \cup
               {[q |-> rest \o nb, visited |-> b.visited \cup {cell},
                 count |-> b.count + 1, painted |-> b.painted \cup {cell}]
                  : nb \in Shuffles(Neighbors(r, c, sr, sc))}
          ELSE {[b EXCEPT !.q = rest, !.visited = b.visited \cup {cell}]}

\* lines 94-113: the states in which the frontier loop can end
RECURSIVE BlobFinals(_, _, _, _)
BlobFinals(frontier, blob_size, sr, sc) ==
  LET active == {b \in frontier : BlobActive(b, blob_size)}
      ended == frontier \ active
  IN IF active = {}
     THEN ended
     ELSE ended \cup
          BlobFinals(UNION {BlobIterations(b, sr, sc) : b \in active}, blob_size, sr, sc)

\* super-grid sizes and targets the frontier loop is followed on step by step
BlobGrids == {<<1, 2>>, <<1, 11>>, <<2, 5>>}
BlobTargets == {MinBlob, MaxBlob}

\* lines 83-92: a zone's origin and target are drawn and the loop is entered
BlobLoopInit ==
  /\ blob_dims \in BlobGrids
  /\ blob_start \in Cells(blob_dims[1], blob_dims[2])
  /\ blob_target \in BlobTargets
  /\ blob = BlobInit(blob_start[1], blob_start[2])
  /\ blob_pc = "growing"

BlobIdle ==
  /\ blob_pc = "idle"
  /\ blob_dims = <<0, 0>>
  /\ blob_start = <<0, 0>>
  /\ blob_target = 0
  /\ blob = BlobInit(0, 0)

\* lines 94-113: the loop test holds and one iteration runs
BlobStep ==
  /\ blob_pc = "growing"
  /\ BlobActive(blob, blob_target)
  /\ blob' \in BlobIterations(blob, blob_dims[1], blob_dims[2])
  /\ UNCHANGED <<blob_pc, blob_dims, blob_start, blob_target>>
  /\ UNCHANGED <<genVars, placeVars, gameVars>>

\* line 94: the loop test fails and the loop is left
BlobEnd ==
  /\ blob_pc = "growing"
  /\ ~BlobActive(blob, blob_target)
  /\ blob_pc' = "grown"
  /\ UNCHANGED <<blob_dims, blob_start, blob_target, blob>>
  /\ UNCHANGED <<genVars, placeVars, gameVars>>

NextBlob == BlobStep \/ BlobEnd

\* line 115
PathCells(g) == Cardinality({cell \in DOMAIN g : g[cell] = PATH})

\* variant of WithinLimit: the ceiling itself is refused
WithinLimit_Strict(path_cells, total, max_pct) == path_cells * 100 < max_pct * total

\* lines 116-119: path_cells / total <= max_path_percentage, in percent
WithinLimit(path_cells, total, max_pct) == path_cells * 100 <= max_pct * total

\* line 124
BudgetExhausted(n, max_attempts) == n = max_attempts

GenInit ==
  /\ gen_pc = "start"
  /\ rows \in 1 .. MaxRows
  /\ cols \in 1 .. MaxCols
  /\ \E size \in RegionSizes, ceiling \in PathCeilings,
        budget \in 0 .. MaxAttemptBudget, chance \in DecorationChances :
       map_settings = [super_grid_region_size |-> size,
                       max_path_percentage |-> ceiling,
                       max_map_generation_attempts |-> budget,
                       tallgrass_probability |-> chance[1],
                       flowers_probability |-> chance[2]]
  /\ super_grid = NoGrid
  /\ current_super_grid = NoGrid
  /\ attempts = 0
  /\ zones_left = 0
  /\ gen_message = "none"
  /\ coordinate_grid = NoGrid
  /\ tile_map = NoGrid
  /\ attempt_log = <<>>
  /\ last_attempt_grid = NoGrid
  /\ accepted = FALSE

\* lines 63-75: the degenerate-size check and the initial all-Path grid
GenSetup ==
  /\ gen_pc = "start"
  /\ IF SuperRows = 0 \/ SuperCols = 0
     THEN /\ gen_pc' = "failed"
          /\ gen_message' = "error"
          /\ UNCHANGED <<super_grid, attempts>>
     ELSE /\ gen_pc' = "loop"
          /\ super_grid' = FullGrid(SuperRows, SuperCols, PATH)
          /\ attempts' = 0
          /\ UNCHANGED gen_message
  /\ UNCHANGED <<rows, cols, map_settings, current_super_grid, zones_left,
                 coordinate_grid, tile_map, attempt_log, last_attempt_grid, accepted>>
  /\ UNCHANGED <<placeVars, gameVars, blobVars>>

\* variant of StartAttempt: the loop test of line 77 is left out
StartAttempt_NoBudget ==
  /\ gen_pc = "loop"
  /\ current_super_grid' = FullGrid(SuperRows, SuperCols, PATH)
  /\ \E num_zones_to_create \in MinZones .. MaxZones : zones_left' = num_zones_to_create
  /\ gen_pc' = "zones"
  /\ UNCHANGED <<rows, cols, map_settings, super_grid, attempts, gen_message,
                 coordinate_grid, tile_map, attempt_log, last_attempt_grid, accepted>>
  /\ UNCHANGED <<placeVars, gameVars, blobVars>>

\* lines 77-81: the loop test, a fresh grid and the number of zones
StartAttempt ==
  /\ gen_pc = "loop"
  /\ attempts < map_settings.max_map_generation_attempts
  /\ current_super_grid' = FullGrid(SuperRows, SuperCols, PATH)
  /\ \E num_zones_to_create \in MinZones .. MaxZones : zones_left' = num_zones_to_create
  /\ gen_pc' = "zones"
  /\ UNCHANGED <<rows, cols, map_settings, super_grid, attempts, gen_message,
                 coordinate_grid, tile_map, attempt_log, last_attempt_grid, accepted>>
  /\ UNCHANGED <<placeVars, gameVars, blobVars>>

\* lines 83-113: one zone, from its origin to the end of its frontier loop
GrowZone ==
  /\ gen_pc = "zones"
  /\ zones_left > 0
  /\ \E start_r \in 0 .. SuperRows - 1, start_c \in 0 .. SuperCols - 1,
        zone_type \in {LAKE, FOREST}, blob_size \in MinBlob .. MaxBlob :
       \E b \in BlobFinals({BlobInit(start_r, start_c)}, blob_size, SuperRows, SuperCols) :
          current_super_grid' =
            [cell \in DOMAIN current_super_grid |->
               IF cell \in b.painted THEN zone_type ELSE current_super_grid[cell]]
  /\ zones_left' = zones_left - 1
  /\ UNCHANGED <<gen_pc, rows, cols, map_settings, super_grid, attempts, gen_message,
                 coordinate_grid, tile_map, attempt_log, last_attempt_grid, accepted>>
  /\ UNCHANGED <<placeVars, gameVars, blobVars>>

\* lines 115-122: accept the attempt and leave the loop, or count it
EvalAttempt ==
  /\ gen_pc = "zones"
  /\ zones_left = 0
  /\ LET path_cells == PathCells(current_super_grid)
     IN /\ attempt_log' = Append(attempt_log, path_cells)
        /\ last_attempt_grid' = current_super_grid
        /\ IF WithinLimit(path_cells, SuperRows * SuperCols, map_settings.max_path_percentage)
           THEN /\ super_grid' = current_super_grid
                /\ accepted' = TRUE
                /\ gen_pc' = "report"
                /\ UNCHANGED attempts
           ELSE /\ attempts' = attempts + 1
                /\ gen_pc' = "loop"
                /\ UNCHANGED <<super_grid, accepted>>
  /\ UNCHANGED <<rows, cols, map_settings, current_super_grid, zones_left, gen_message,
                 coordinate_grid, tile_map>>
  /\ UNCHANGED <<placeVars, gameVars, blobVars>>

\* line 77 (loop test fails) and lines 124-127
Report ==
  /\ \/ gen_pc = "report"
     \/ gen_pc = "loop" /\ ~(attempts < map_settings.max_map_generation_attempts)
  /\ gen_message' = IF BudgetExhausted(attempts, map_settings.max_map_generation_attempts)
                    THEN "warning" ELSE "success"
  /\ gen_pc' = "raster"
  /\ UNCHANGED <<rows, cols, map_settings, super_grid, current_super_grid, attempts,
                 zones_left, coordinate_grid, tile_map, attempt_log, last_attempt_grid,
                 accepted>>
  /\ UNCHANGED <<placeVars, gameVars, blobVars>>

\* lines 146-154: walkability and base tag of a zone
ZoneWalk(zone_type) == IF zone_type = LAKE \/ zone_type = FOREST THEN 0 ELSE 1
ZoneTile(zone_type) ==
  IF zone_type = LAKE THEN "water"
  ELSE IF zone_type = FOREST THEN "forest_tree" ELSE "grassland"

\* lines 135-145: the tiles the expansion loops write
Covered(r, c) ==
  /\ r < SuperRows * map_settings.super_grid_region_size
  /\ c < SuperCols * map_settings.super_grid_region_size

SuperOf(r, c) ==
  <<r \div map_settings.super_grid_region_size, c \div map_settings.super_grid_region_size>>

\* lines 130-154: np.zeros / np.empty, then the expansion of every super-cell
Rasterize ==
  /\ gen_pc = "raster"
  /\ coordinate_grid' =
       [cell \in Cells(rows, cols) |->
          IF Covered(cell[1], cell[2])
          THEN ZoneWalk(super_grid[SuperOf(cell[1], cell[2])]) ELSE 0]
  /\ tile_map' =
       [cell \in Cells(rows, cols) |->
          IF Covered(cell[1], cell[2])
          THEN ZoneTile(super_grid[SuperOf(cell[1], cell[2])]) ELSE "None"]
  /\ gen_pc' = "decorate"
  /\ UNCHANGED <<rows, cols, map_settings, super_grid, current_super_grid, attempts,
                 zones_left, gen_message, attempt_log, last_attempt_grid, accepted>>
  /\ UNCHANGED <<placeVars, gameVars, blobVars>>

\* variant of Decorable: every tile is rolled for
Decorable_Always(walk) == TRUE

\* line 159: the tiles the decoration pass rolls for
Decorable(walk) == walk = 1

\* lines 160-163: random.random() < p can come out true when p > 0 and false
\* when p < 1; what the two rolls can do to one tile
Rolls(tallgrass_pct, flowers_pct) ==
  (IF tallgrass_pct > 0 THEN {"tallgrass"} ELSE {}) \cup
  (IF tallgrass_pct < 100 /\ flowers_pct > 0 THEN {"flowers"} ELSE {}) \cup
  (IF tallgrass_pct < 100 /\ flowers_pct < 100 THEN {"keep"} ELSE {})

\* lines 157-166: the decoration pass over every tile, then the return
Decorate ==
  /\ gen_pc = "decorate"
  /\ LET rolled == {cell \in DOMAIN coordinate_grid : Decorable(coordinate_grid[cell])}
     IN \E roll \in [rolled -> Rolls(map_settings.tallgrass_probability,
                                      map_settings.flowers_probability)] :
          tile_map' = [cell \in DOMAIN tile_map |->
                         IF cell \in rolled /\ roll[cell] # "keep"
                         THEN roll[cell] ELSE tile_map[cell]]
  /\ gen_pc' = "done"
  /\ UNCHANGED <<rows, cols, map_settings, super_grid, current_super_grid, attempts,
                 zones_left, gen_message, coordinate_grid, attempt_log,
                 last_attempt_grid, accepted>>
  /\ UNCHANGED <<placeVars, gameVars, blobVars>>

GenIdle ==
  /\ gen_pc = "idle"
  /\ map_settings = [super_grid_region_size |-> 2, max_path_percentage |-> 50,
                     max_map_generation_attempts |-> 0,
                     tallgrass_probability |-> 0, flowers_probability |-> 0]
  /\ super_grid = NoGrid
  /\ current_super_grid = NoGrid
  /\ attempts = 0
  /\ zones_left = 0
  /\ gen_message = "none"
  /\ attempt_log = <<>>
  /\ last_attempt_grid = NoGrid
  /\ accepted = FALSE

\* lines 495-496 and 200: run_pygame_visualizer hands whatever
\* generate_layered_map returned to place_buildings_on_map, whose first
\* statement reads coordinate_grid.shape; on the None of line 69 that read
\* raises AttributeError
CallPlaceBuildings ==
  /\ gen_pc \in {"done", "failed"}
  /\ place_pc = "idle"
  /\ place_pc' = IF gen_pc = "failed" THEN "attribute_error" ELSE "called"
  /\ UNCHANGED <<num_buildings, possible_top_lefts, placed_buildings_objects, input_grid>>
  /\ UNCHANGED <<genVars, gameVars, blobVars>>

NextGen == GenSetup \/ StartAttempt \/ GrowZone \/ EvalAttempt \/ Report \/ Rasterize
           \/ Decorate \/ CallPlaceBuildings

----------------------------------------------------------------------------
(* place_buildings_on_map                                                  *)

\* lines 243-244: the entrance tile, as <<row, col>>
EntranceCell(r_start, c_start, b_width, b_height) ==
  <<r_start + b_height, c_start + b_width \div 2>>

\* lines 252-254: the tiles under the building
Footprint(r_start, c_start, b_width, b_height) ==
  {<<r_start + r_offset, c_start + c_offset>> :
     r_offset \in 0 .. b_height - 1, c_offset \in 0 .. b_width - 1}

\* line 225, negated: the building fits within the map boundaries
FitsMap(r_start, c_start, b_width, b_height, nr, nc) ==
  ~(r_start + b_height > nr \/ c_start + b_width > nc)

\* variant of FootprintClear: only the top-left tile is looked at
FootprintClear_TopLeftOnly(grid, r_start, c_start, b_width, b_height, nr, nc) ==
  grid[<<r_start, c_start>>] = 1

\* lines 228-240: every tile under the building is in bounds and equal to 1
FootprintClear(grid, r_start, c_start, b_width, b_height, nr, nc) ==
  \A cell \in Footprint(r_start, c_start, b_width, b_height) :
     /\ 0 <= cell[1] /\ cell[1] < nr /\ 0 <= cell[2] /\ cell[2] < nc
     /\ grid[cell] = 1

\* variant of EntranceClear: the entrance tile only has to be in bounds
EntranceClear_InBoundsOnly(grid, cell, nr, nc) ==
  0 <= cell[1] /\ cell[1] < nr /\ 0 <= cell[2] /\ cell[2] < nc

\* line 247, negated: the entrance tile is in bounds and equal to 1
EntranceClear(grid, cell, nr, nc) ==
  /\ 0 <= cell[1] /\ cell[1] < nr /\ 0 <= cell[2] /\ cell[2] < nc
  /\ grid[cell] = 1

\* lines 252-256: the footprint becomes 2, then the entrance tile is set to 1
MarkBuilding(grid, r_start, c_start, b_width, b_height) ==
  LET fp == Footprint(r_start, c_start, b_width, b_height)
      marked == [cell \in DOMAIN grid |-> IF cell \in fp THEN 2 ELSE grid[cell]]
  IN [marked EXCEPT ![EntranceCell(r_start, c_start, b_width, b_height)] = 1]

\* lines 258-265
BuildingRecord(name, r_start, c_start, b_width, b_height) ==
  LET e == EntranceCell(r_start, c_start, b_width, b_height)
  IN [type |-> name, grid_x |-> c_start, grid_y |-> r_start,
      width_tiles |-> b_width, height_tiles |-> b_height,
      entrance_tile_world_coords |-> <<e[2], e[1]>>]

\* lines 218-265: the loop body for one candidate and one drawn building type
TryCandidate(grid, placed, r_start, c_start, name, nr, nc) ==
  LET b_width == BuildingDefs[name].width_tiles
      b_height == BuildingDefs[name].height_tiles
  IN IF ~FitsMap(r_start, c_start, b_width, b_height, nr, nc)
     THEN [grid |-> grid, placed |-> placed]
     ELSE IF /\ FootprintClear(grid, r_start, c_start, b_width, b_height, nr, nc)
             /\ EntranceClear(grid, EntranceCell(r_start, c_start, b_width, b_height), nr, nc)
          THEN [grid |-> MarkBuilding(grid, r_start, c_start, b_width, b_height),
                placed |-> Append(placed,
                             BuildingRecord(name, r_start, c_start, b_width, b_height))]
          ELSE [grid |-> grid, placed |-> placed]

\* lines 204-208
WalkableCells(grid) == {cell \in DOMAIN grid : grid[cell] = 1}

\* input grids: every tile walkable, or every tile but one
InputGrids(nr, nc) ==
  {FullGrid(nr, nc, 1)} \cup
  {[FullGrid(nr, nc, 1) EXCEPT ![hole] = 0] : hole \in Cells(nr, nc)}

BaseTiles(grid) == [cell \in DOMAIN grid |-> IF grid[cell] = 0 THEN "water" ELSE "grassland"]

\* lines 199-212: the call, the candidates and their shuffle
PlaceInit ==
  /\ place_pc = "loop"
  /\ rows \in 1 .. PlaceMaxRows
  /\ cols \in 1 .. PlaceMaxCols
  /\ coordinate_grid \in InputGrids(rows, cols)
  /\ tile_map = BaseTiles(coordinate_grid)
  /\ num_buildings \in BuildingCounts
  /\ possible_top_lefts = WalkableCells(coordinate_grid)
  /\ placed_buildings_objects = <<>>
  /\ input_grid = coordinate_grid

PlaceIdle ==
  /\ place_pc = "idle"
  /\ num_buildings = 0
  /\ possible_top_lefts = {}
  /\ placed_buildings_objects = <<>>
  /\ input_grid = NoGrid

\* lines 214-265: the next candidate of the shuffled list
PlaceCandidate ==
  /\ place_pc = "loop"
  /\ Len(placed_buildings_objects) < num_buildings
  /\ \E cand \in possible_top_lefts, building_type_name \in DOMAIN BuildingDefs :
       LET res == TryCandidate(coordinate_grid, placed_buildings_objects,
                               cand[1], cand[2], building_type_name, rows, cols)
       IN /\ coordinate_grid' = res.grid
          /\ placed_buildings_objects' = res.placed
          /\ possible_top_lefts' = possible_top_lefts \ {cand}
  /\ UNCHANGED <<place_pc, num_buildings, input_grid, rows, cols, tile_map>>
  /\ UNCHANGED <<genRest, gameVars, blobVars>>

\* lines 214-216 and 267: candidates exhausted or count reached, return
PlaceReturn ==
  /\ place_pc = "loop"
  /\ \/ Len(placed_buildings_objects) >= num_buildings
     \/ possible_top_lefts = {}
  /\ place_pc' = "done"
  /\ UNCHANGED <<num_buildings, possible_top_lefts, placed_buildings_objects, input_grid,
                 rows, cols, coordinate_grid, tile_map>>
  /\ UNCHANGED <<genRest, gameVars, blobVars>>

NextPlace == PlaceCandidate \/ PlaceReturn

\* lines 214-267 as a function of the shuffled list and of one drawn type
RECURSIVE PlaceRun(_, _, _, _, _, _, _)
PlaceRun(grid, placed, order, name, num, nr, nc) ==
  IF Len(placed) >= num \/ order = <<>>
  THEN [grid |-> grid, placed |-> placed]
  ELSE LET res == TryCandidate(grid, placed, Head(order)[1], Head(order)[2], name, nr, nc)
       IN PlaceRun(res.grid, res.placed, Tail(order), name, num, nr, nc)

----------------------------------------------------------------------------
----------------------------------------------------------------------------
(* Player, scene switches and the main loop of run_pygame_visualizer       *)

Keys == {"UP", "DOWN", "LEFT", "RIGHT", "OTHER"}
ArrowKeys == {"UP", "DOWN", "LEFT", "RIGHT"}

NoDirection == <<>>      \* moving_direction is None
NoEntry == <<>>          \* pre_entry before the first entry; afterwards <<record>>
NoExit == <<>>           \* an outdoor scene has no "exit_point"
NoPlayer == <<>>         \* line 366: player is None until line 589
NoMapData == <<>>        \* lines 368-369: the two scene records start empty

\* the events pygame.event.get() can return
Events ==
  {[type |-> "QUIT", key |-> "OTHER"]} \cup [type : {"KEYDOWN", "KEYUP"}, key : Keys]

\* lines 636-644: the (dx, dy) of a key
KeyDelta(key) ==
  IF key = "UP" THEN <<0, -1>>
  ELSE IF key = "DOWN" THEN <<0, 1>>
  ELSE IF key = "LEFT" THEN <<-1, 0>>
  ELSE IF key = "RIGHT" THEN <<1, 0>>
  ELSE <<0, 0>>

\* lines 324-330
DirectionName(dx, dy) ==
  IF <<dx, dy>> = <<0, -1>> THEN "up"
  ELSE IF <<dx, dy>> = <<0, 1>> THEN "down"
  ELSE IF <<dx, dy>> = <<-1, 0>> THEN "left"
  ELSE IF <<dx, dy>> = <<1, 0>> THEN "right"
  ELSE "down"

\* variant of SetMovingDirection: the initial cooldown is not armed
SetMovingDirection_NoArm(p, dx, dy) ==
  IF p.moving_direction # <<dx, dy>>
  THEN [p EXCEPT !.moving_direction = <<dx, dy>>, !.direction = DirectionName(dx, dy)]
  ELSE p

\* lines 323-335
SetMovingDirection(p, dx, dy) ==
  IF p.moving_direction # <<dx, dy>>
  THEN [p EXCEPT !.moving_direction = <<dx, dy>>,
                 !.direction = DirectionName(dx, dy),
                 !.move_timer = game_settings.player_move_cooldown_initial]
  ELSE p

\* variant of ClearMovingDirection: the movement timer is left running
ClearMovingDirection_KeepTimer(p) == [p EXCEPT !.moving_direction = NoDirection]

\* lines 338-340
ClearMovingDirection(p) == [p EXCEPT !.moving_direction = NoDirection, !.move_timer = 0]

\* line 351, negated
InMap(x, y, map_rows, map_cols) == 0 <= x /\ x < map_cols /\ 0 <= y /\ y < map_rows

\* variant of Blocked: only natural terrain stops the player
Blocked_OnlyZero(grid, x, y) == grid[<<y, x>>] = 0

\* line 355: the tile cannot be stepped on
Blocked(grid, x, y) == grid[<<y, x>>] # 1

\* variant of TryMove: a rejected step re-arms the subsequent cooldown
TryMove_ArmsWhenBlocked(p, dx, dy, grid, map_rows, map_cols, is_continuous) ==
  LET new_grid_x == p.grid_x + dx
      new_grid_y == p.grid_y + dy
  IN IF is_continuous /\ p.move_timer > 0 THEN p
     ELSE IF ~InMap(new_grid_x, new_grid_y, map_rows, map_cols)
             \/ Blocked(grid, new_grid_x, new_grid_y)
     THEN [p EXCEPT !.move_timer = game_settings.player_move_cooldown_subsequent]
     ELSE [p EXCEPT !.grid_x = new_grid_x,
                    !.grid_y = new_grid_y,
                    !.move_timer = IF is_continuous
                                   THEN game_settings.player_move_cooldown_subsequent
                                   ELSE game_settings.player_move_cooldown_initial]

\* lines 343-362
TryMove(p, dx, dy, grid, map_rows, map_cols, is_continuous) ==
  LET new_grid_x == p.grid_x + dx
      new_grid_y == p.grid_y + dy
  IN IF is_continuous /\ p.move_timer > 0 THEN p
     ELSE IF ~InMap(new_grid_x, new_grid_y, map_rows, map_cols) THEN p
     ELSE IF Blocked(grid, new_grid_x, new_grid_y) THEN p
     ELSE [p EXCEPT !.grid_x = new_grid_x,
                    !.grid_y = new_grid_y,
                    !.move_timer = IF is_continuous
                                   THEN game_settings.player_move_cooldown_subsequent
                                   ELSE game_settings.player_move_cooldown_initial]

\* variant of TimersDown: the movement timer does not count down
TimersDown_KeepMoveTimer(p) ==
  [p EXCEPT !.interaction_cooldown = IF p.interaction_cooldown > 0
                                     THEN p.interaction_cooldown - 1
                                     ELSE p.interaction_cooldown]

\* lines 301-304: the two timers count down
TimersDown(p) ==
  [p EXCEPT !.move_timer = IF p.move_timer > 0 THEN p.move_timer - 1 ELSE p.move_timer,
            !.interaction_cooldown = IF p.interaction_cooldown > 0
                                     THEN p.interaction_cooldown - 1
                                     ELSE p.interaction_cooldown]

\* lines 300-309 (the animation bookkeeping of lines 310-321 is left out)
PlayerUpdate(p, grid) ==
  LET t == TimersDown(p)
  IN IF t.moving_direction # NoDirection /\ t.move_timer = 0
     THEN TryMove(t, t.moving_direction[1], t.moving_direction[2], grid,
                  t.total_rows, t.total_cols, TRUE)
     ELSE t

\* variant of InteriorGrid: the bottom wall has no door
InteriorGrid_NoDoor(nr, nc) ==
  [cell \in Cells(nr, nc) |->
     IF cell[1] = 0 \/ cell[1] = nr - 1 \/ cell[2] = 0 \/ cell[2] = nc - 1 THEN 0
     ELSE 1]

\* lines 169-196
InteriorGrid(nr, nc) ==
  [cell \in Cells(nr, nc) |->
     IF cell = <<nr - 1, nc \div 2>> THEN 1
     ELSE IF cell[1] = 0 \/ cell[1] = nr - 1 \/ cell[2] = 0 \/ cell[2] = nc - 1 THEN 0
     ELSE 1]

InteriorTiles(nr, nc) ==
  [cell \in Cells(nr, nc) |->
     IF cell = <<nr - 1, nc \div 2>> THEN "door"
     ELSE IF cell[1] = 0 \/ cell[1] = nr - 1 \/ cell[2] = 0 \/ cell[2] = nc - 1
          THEN "stone_wall"
     ELSE "wood_floor"]

InteriorDoor(nr, nc) == <<nr - 1, nc \div 2>>

\* lines 399 and 444: the cooldown a scene switch leaves behind
CooldownAfterSwitch == max_interaction_cooldown

\* variant of CanInteract: the cooldown is not looked at
CanInteract_NoCooldown(p, key) == key = "UP"

\* line 618: the key press is looked at as an interaction
CanInteract(p, key) == key = "UP" /\ p.interaction_cooldown = 0

\* variant of ReturnPosition: the two coordinates are exchanged
ReturnPosition_Swapped(return_coords) == <<return_coords[2], return_coords[1]>>

\* lines 383-385: the position the player returns to, as <<grid_x, grid_y>>
ReturnPosition(return_coords) == <<return_coords[1], return_coords[2]>>

\* variant of IndoorPosition: the player is put on the door itself
IndoorPosition_OnDoor(interior_door_pos) == <<interior_door_pos[2], interior_door_pos[1]>>

\* lines 429-430: the position inside, as <<grid_x, grid_y>>
IndoorPosition(interior_door_pos) == <<interior_door_pos[2], interior_door_pos[1] - 1>>

\* variant of EntranceHere: the first building, wherever the player stands
EntranceHere_Any(p) == {i \in 1 .. Len(placed_buildings_data) : i = 1}

\* lines 620-622: the first building whose entrance is the player's tile
EntranceHere(p) ==
  {i \in 1 .. Len(placed_buildings_data) :
     /\ placed_buildings_data[i].entrance_tile_world_coords = <<p.grid_x, p.grid_y>>
     /\ \A j \in 1 .. i - 1 :
          placed_buildings_data[j].entrance_tile_world_coords # <<p.grid_x, p.grid_y>>}

\* variant of SwitchToIndoor: the snapshot is taken after the interior has
\* become the active scene
SwitchToIndoor_SavesAfter(outdoor_entrance_coords) ==
  LET nr == interior_settings.interior_rows
      nc == interior_settings.interior_cols
      door == InteriorDoor(nr, nc)
      pos == IndoorPosition(door)
  IN /\ current_map_data' = [grid |-> InteriorGrid(nr, nc), tiles |-> InteriorTiles(nr, nc),
                             type |-> "indoor", exit_point |-> door]
     /\ outdoor_map_data' = [map_details |-> current_map_data',
                             player_last_outdoor_pos |-> outdoor_entrance_coords,
                             buildings |-> placed_buildings_data]
     /\ player' = [player EXCEPT !.grid_x = pos[1], !.grid_y = pos[2],
                                 !.total_rows = nr, !.total_cols = nc,
                                 !.interaction_cooldown = CooldownAfterSwitch]
     /\ UNCHANGED placed_buildings_data

\* lines 404-446
SwitchToIndoor(outdoor_entrance_coords) ==
  LET nr == interior_settings.interior_rows
      nc == interior_settings.interior_cols
      door == InteriorDoor(nr, nc)
      pos == IndoorPosition(door)
  IN /\ outdoor_map_data' = [map_details |-> current_map_data,
                             player_last_outdoor_pos |-> outdoor_entrance_coords,
                             buildings |-> placed_buildings_data]
     /\ current_map_data' = [grid |-> InteriorGrid(nr, nc), tiles |-> InteriorTiles(nr, nc),
                             type |-> "indoor", exit_point |-> door]
     /\ player' = [player EXCEPT !.grid_x = pos[1], !.grid_y = pos[2],
                                 !.total_rows = nr, !.total_cols = nc,
                                 !.interaction_cooldown = CooldownAfterSwitch]
     /\ UNCHANGED placed_buildings_data

\* lines 373-401
SwitchToOutdoor ==
  LET details == outdoor_map_data.map_details
      pos == ReturnPosition(outdoor_map_data.player_last_outdoor_pos)
  IN /\ current_map_data' = details
     /\ placed_buildings_data' = outdoor_map_data.buildings
     /\ player' = [player EXCEPT !.grid_x = pos[1], !.grid_y = pos[2],
                                 !.total_rows = rows, !.total_cols = cols,
                                 !.interaction_cooldown = CooldownAfterSwitch]
     /\ UNCHANGED outdoor_map_data

\* variant of OnExitPoint: the player's tile is not looked at
OnExitPoint_Anywhere(p) == TRUE

\* lines 628-629: the player stands on the interior's door
OnExitPoint(p) == <<p.grid_y, p.grid_x>> = current_map_data.exit_point

gameConfig == <<interior_settings, game_settings>>

\* lines 616-648: a KEYDOWN event
KeyDown(key) ==
  /\ game_pc = "running"
  /\ pending > 0
  /\ IF CanInteract(player, key) /\ current_map_data.type = "outdoor"
        /\ EntranceHere(player) # {}
     THEN \* lines 620-626: enter; the break leaves the loop over the buildings
          /\ \E i \in EntranceHere(player) :
               SwitchToIndoor(placed_buildings_data[i].entrance_tile_world_coords)
          /\ pre_entry' = << [pos |-> <<player.grid_x, player.grid_y>>,
                              grid |-> current_map_data.grid,
                              tiles |-> current_map_data.tiles,
                              buildings |-> placed_buildings_data] >>
          /\ ticks_since_switch' = 0
          /\ pending' = pending - 1
          /\ UNCHANGED dropped
     ELSE IF CanInteract(player, key) /\ current_map_data.type = "indoor"
             /\ OnExitPoint(player)
     THEN \* lines 627-633: exit; the break leaves the loop over the events, so
          \* the events still in this frame's list are never handled
          /\ SwitchToOutdoor
          /\ ticks_since_switch' = 0
          /\ pending' = 0
          /\ dropped' \in [1 .. pending - 1 -> Events]
          /\ UNCHANGED pre_entry
     ELSE \* lines 635-648
          /\ LET d == KeyDelta(key)
             IN player' = IF d # <<0, 0>>
                          THEN TryMove(SetMovingDirection(player, d[1], d[2]), d[1], d[2],
                                       current_map_data.grid, player.total_rows,
                                       player.total_cols, FALSE)
                          ELSE player
          /\ pending' = pending - 1
          /\ UNCHANGED <<current_map_data, outdoor_map_data, placed_buildings_data,
                         pre_entry, ticks_since_switch, dropped>>
  /\ UNCHANGED <<game_pc, running, gameConfig>>
  /\ UNCHANGED <<genVars, placeVars, blobVars>>

\* lines 650-652: a KEYUP event
KeyUp(key) ==
  /\ game_pc = "running"
  /\ pending > 0
  /\ player' = IF key \in ArrowKeys THEN ClearMovingDirection(player) ELSE player
  /\ pending' = pending - 1
  /\ UNCHANGED <<game_pc, running, current_map_data, outdoor_map_data,
                 placed_buildings_data, gameConfig, pre_entry, ticks_since_switch, dropped>>
  /\ UNCHANGED <<genVars, placeVars, blobVars>>

\* lines 614-615: a QUIT event
Quit ==
  /\ game_pc = "running"
  /\ pending > 0
  /\ running' = FALSE
  /\ pending' = pending - 1
  /\ UNCHANGED <<game_pc, player, current_map_data, outdoor_map_data,
                 placed_buildings_data, gameConfig, pre_entry, ticks_since_switch, dropped>>
  /\ UNCHANGED <<genVars, placeVars, blobVars>>

\* lines 656-704 and 612-613: the rest of the frame, then the loop test and the
\* next frame's pygame.event.get()
Update ==
  /\ game_pc = "running"
  /\ pending = 0
  /\ player' = PlayerUpdate(player, current_map_data.grid)
  /\ ticks_since_switch' = IF ticks_since_switch < max_interaction_cooldown
                           THEN ticks_since_switch + 1 ELSE ticks_since_switch
  /\ dropped' = <<>>
  /\ IF running
     THEN /\ pending' \in 0 .. MaxEvents
          /\ UNCHANGED game_pc
     ELSE /\ game_pc' = "closed"
          /\ UNCHANGED pending
  /\ UNCHANGED <<running, current_map_data, outdoor_map_data, placed_buildings_data,
                 gameConfig, pre_entry>>
  /\ UNCHANGED <<genVars, placeVars, blobVars>>

\* lines 573-582: the first tile equal to 1 in row-major order, as <<row, col>>
StartCells(grid, nr, nc) ==
  {cell \in Cells(nr, nc) :
     /\ grid[cell] = 1
     /\ \A other \in Cells(nr, nc) :
          (other[1] < cell[1] \/ (other[1] = cell[1] /\ other[2] < cell[2]))
             => grid[other] # 1}

\* one outcome of the shuffle of line 210: the candidates in row-major order
RECURSIVE RowMajor(_, _)
RowMajor(cells, nc) ==
  IF cells = {} THEN <<>>
  ELSE LET first == CHOOSE a \in cells :
                      \A b \in cells : a[1] * nc + a[2] <= b[1] * nc + b[2]
       IN <<first>> \o RowMajor(cells \ {first}, nc)

\* generated worlds: every tile walkable, every tile but the first one, or none
GameInputGrids(nr, nc) ==
  {g \in InputGrids(nr, nc) : \A cell \in Cells(nr, nc) : g[cell] = 0 => cell = <<0, 0>>}
    \cup {FullGrid(nr, nc, 0)}

\* lines 366-370 and 494-496: the world after generation and placement; the
\* player and the two scene records do not exist yet
GameInit ==
  /\ rows = GameRows
  /\ cols = GameCols
  /\ \E g \in GameInputGrids(rows, cols), name \in DOMAIN BuildingDefs,
        num \in BuildingCounts \ {0} :
       LET res == PlaceRun(g, <<>>, RowMajor(WalkableCells(g), cols), name, num, rows, cols)
       IN /\ input_grid = g
          /\ num_buildings = num
          /\ coordinate_grid = res.grid
          /\ placed_buildings_objects = res.placed
          /\ placed_buildings_data = res.placed
          /\ tile_map = BaseTiles(g)
  /\ place_pc = "done"
  /\ possible_top_lefts = {}
  /\ interior_settings \in [interior_rows : InteriorSizes, interior_cols : InteriorSizes]
  /\ game_settings \in MoveCooldowns
  /\ player = NoPlayer
  /\ current_map_data = NoMapData
  /\ outdoor_map_data = NoMapData
  /\ game_pc = "setup"
  /\ running = FALSE
  /\ pending = 0
  /\ pre_entry = NoEntry
  /\ ticks_since_switch = max_interaction_cooldown
  /\ dropped = <<>>

\* variant of FoundStart: the search is taken to have succeeded
FoundStart_Always(grid, nr, nc) == TRUE

\* lines 574-582: the search found a tile equal to 1
FoundStart(grid, nr, nc) == StartCells(grid, nr, nc) # {}

\* lines 573-582: start_y, start_x after the search; (0, 0) when nothing was found
StartPosition(grid, nr, nc) ==
  IF StartCells(grid, nr, nc) # {}
  THEN CHOOSE cell \in StartCells(grid, nr, nc) : TRUE
  ELSE <<0, 0>>

\* lines 573-613: the search for a start tile, then either the early return
\* or the player, the two scene records and the first frame's events
PlayerSetup ==
  /\ game_pc = "setup"
  /\ IF ~FoundStart(coordinate_grid, rows, cols)
     THEN /\ game_pc' = "exited"
          /\ UNCHANGED <<running, pending, player, current_map_data, outdoor_map_data>>
     ELSE LET start == StartPosition(coordinate_grid, rows, cols)
              scene == [grid |-> coordinate_grid, tiles |-> tile_map,
                        type |-> "outdoor", exit_point |-> NoExit]
          IN /\ player' = [grid_x |-> start[2], grid_y |-> start[1],
                           total_rows |-> rows, total_cols |-> cols,
                           direction |-> "down", move_timer |-> 0,
                           moving_direction |-> NoDirection, interaction_cooldown |-> 0]
             /\ current_map_data' = scene
             /\ outdoor_map_data' = [map_details |-> scene,
                                     player_last_outdoor_pos |-> <<start[2], start[1]>>,
                                     buildings |-> placed_buildings_data]
             /\ game_pc' = "running"
             /\ running' = TRUE
             /\ pending' \in 0 .. MaxEvents
  /\ UNCHANGED <<placed_buildings_data, gameConfig, pre_entry, ticks_since_switch, dropped>>
  /\ UNCHANGED <<genVars, placeVars, blobVars>>

GameIdle ==
  /\ game_pc = "idle"
  /\ running = FALSE
  /\ pending = 0
  /\ player = NoPlayer
  /\ current_map_data = NoMapData
  /\ outdoor_map_data = NoMapData
  /\ placed_buildings_data = <<>>
  /\ interior_settings = <<>>
  /\ game_settings = <<>>
  /\ pre_entry = NoEntry
  /\ ticks_since_switch = 0
  /\ dropped = <<>>

NextGame == PlayerSetup \/ (\E key \in Keys : KeyDown(key))
            \/ (\E key \in Keys : KeyUp(key)) \/ Quit \/ Update

----------------------------------------------------------------------------
----------------------------------------------------------------------------
(* Properties                                                              *)

PlayerPos == <<player.grid_x, player.grid_y>>
PlayerCell == <<player.grid_y, player.grid_x>>

\* the footprint of a building record, as a set of <<row, col>>
RecordFootprint(b) ==
  {<<r, c>> : r \in b.grid_y .. b.grid_y + b.height_tiles - 1,
              c \in b.grid_x .. b.grid_x + b.width_tiles - 1}

\* C1: once place_buildings_on_map has returned, the entrance tile
\* (row grid_y + height, col grid_x + width \div 2) of every returned record
\* equals 1; no later footprint covers an earlier entrance.
EntrancesStayWalkable ==
  place_pc = "done" =>
    \A i \in 1 .. Len(placed_buildings_objects) :
       LET b == placed_buildings_objects[i]
       IN coordinate_grid[<<b.grid_y + b.height_tiles,
                            b.grid_x + b.width_tiles \div 2>>] = 1

\* C2: once place_buildings_on_map has returned, every record's footprint
\* lies inside the grid, every footprint tile equals 2 and was 1 in the input
\* grid, and no two footprints share a tile.
FootprintsSound ==
  place_pc = "done" =>
    /\ \A i \in 1 .. Len(placed_buildings_objects) :
          \A cell \in RecordFootprint(placed_buildings_objects[i]) :
             IF cell \in Cells(rows, cols)
             THEN coordinate_grid[cell] = 2 /\ input_grid[cell] = 1
             ELSE FALSE
    /\ \A i, j \in 1 .. Len(placed_buildings_objects) :
          i # j => RecordFootprint(placed_buildings_objects[i])
                     \cap RecordFootprint(placed_buildings_objects[j]) = {}

\* C2 witness: two buildings were placed on a grid that has an impassable tile
TwoBuildingsPlaced ==
  /\ place_pc = "done"
  /\ game_pc = "idle"
  /\ Len(placed_buildings_objects) = 2
  /\ \E cell \in DOMAIN input_grid : input_grid[cell] = 0
  /\ \E i \in 1 .. 2 : placed_buildings_objects[i].width_tiles = 2

\* C3: while the main loop runs, the player's (grid_y, grid_x) is an index of
\* the active walkability grid and the tile there is not 0.
PlayerOnPassableTile ==
  game_pc = "running" =>
    /\ PlayerCell \in DOMAIN current_map_data.grid
    /\ current_map_data.grid[PlayerCell] # 0

\* C4: a step that does not switch the scene leaves the player where it is or
\* moves it to an in-bounds 4-neighbour whose walkability value is 1.
MovesOnlyOntoWalkable ==
  [][(game_pc = "running" /\ current_map_data'.type = current_map_data.type) =>
       \/ PlayerPos' = PlayerPos
       \/ /\ \E key \in ArrowKeys :
               PlayerPos' = <<player.grid_x + KeyDelta(key)[1],
                              player.grid_y + KeyDelta(key)[2]>>
          /\ PlayerCell' \in DOMAIN current_map_data.grid
          /\ current_map_data.grid[PlayerCell'] = 1]_vars

\* C4 witness: a direction is held towards an in-bounds tile of a building
HeldAgainstBuilding ==
  /\ game_pc = "running"
  /\ player.moving_direction # NoDirection
  /\ LET target == <<player.grid_y + player.moving_direction[2],
                     player.grid_x + player.moving_direction[1]>>
     IN /\ target \in DOMAIN current_map_data.grid
        /\ current_map_data.grid[target] = 2

\* C5: leaving an interior puts the player on the position held just before
\* the entry, in the outdoor scene, with the walkability grid, the tile-type
\* grid and the building list that were active just before the entry.
RoundTripRestores ==
  [][(game_pc = "running" /\ current_map_data.type = "indoor"
        /\ current_map_data'.type # "indoor") =>
       /\ Len(pre_entry) = 1
       /\ current_map_data'.type = "outdoor"
       /\ PlayerPos' = pre_entry[1].pos
       /\ current_map_data'.grid = pre_entry[1].grid
       /\ current_map_data'.tiles = pre_entry[1].tiles
       /\ placed_buildings_data' = pre_entry[1].buildings]_vars

\* C5 witness: the player has just come back out of a building, after having
\* walked inside
BackOutside ==
  /\ game_pc = "running"
  /\ Len(pre_entry) = 1
  /\ current_map_data.type = "outdoor"
  /\ ticks_since_switch = 0
  /\ player.direction = "down"

\* C6: when no attempt was accepted, the zone grid that is rasterized is the
\* grid of the last attempt, and a warning is what was reported.
LastAttemptRasterized ==
  (gen_pc \in {"raster", "done"} /\ ~accepted /\ attempt_log # <<>>) =>
    /\ super_grid = last_attempt_grid
    /\ gen_message = "warning"

\* C7: when generation leaves the retry loop with budget left, the zone grid
\* it uses is that of the last attempt, its path fraction is within the
\* ceiling and every earlier attempt was above it; the warning is reported
\* exactly when no attempt was accepted, and then every attempt was above
\* the ceiling.
FirstFitAccepted ==
  gen_pc \in {"raster", "done"} =>
    LET total == Cardinality(DOMAIN super_grid)
        ceiling == map_settings.max_path_percentage
        above(n) == n * 100 > ceiling * total
    IN /\ attempts < map_settings.max_map_generation_attempts =>
            /\ accepted
            /\ super_grid = last_attempt_grid
            /\ ~above(PathCells(super_grid))
            /\ Len(attempt_log) = attempts + 1
            /\ \A i \in 1 .. Len(attempt_log) - 1 : above(attempt_log[i])
       /\ (gen_message = "warning") <=> ~accepted
       /\ ~accepted => \A i \in 1 .. Len(attempt_log) : above(attempt_log[i])

\* C7 witness: the first attempt was refused and the second one accepted
SecondAttemptAccepted ==
  /\ gen_pc = "done"
  /\ accepted
  /\ Len(attempt_log) = 2
  /\ attempt_log[1] > 0

\* C8: a scene switch happens only when the interaction cooldown is zero and
\* sets it to max_interaction_cooldown; every update lowers a positive
\* cooldown by one; so a switch has at least max_interaction_cooldown updates
\* between it and the switch before it.
SwitchesNeedCooldown ==
  [][/\ (game_pc = "running" /\ current_map_data'.type # current_map_data.type) =>
          /\ player.interaction_cooldown = 0
          /\ player'.interaction_cooldown = max_interaction_cooldown
          /\ ticks_since_switch >= max_interaction_cooldown
          /\ pending > 0
     /\ (game_pc = "running" /\ pending = 0) =>
          player'.interaction_cooldown =
            IF player.interaction_cooldown > 0
            THEN player.interaction_cooldown - 1 ELSE 0]_vars

\* C8 witness: the player has entered a building and has just left it again
SecondSwitchDone ==
  /\ game_pc = "running"
  /\ Len(pre_entry) = 1
  /\ current_map_data.type = "outdoor"
  /\ ticks_since_switch = 0
  /\ player.interaction_cooldown = max_interaction_cooldown

\* C9 as stated: handling a key-down that changes the held direction commits
\* no step.
NoStepOnNewDirection ==
  [][(game_pc = "running" /\ pending > 0
        /\ player'.moving_direction # player.moving_direction
        /\ player'.moving_direction # NoDirection) =>
       PlayerPos' = PlayerPos]_vars

\* C9 as amended: a key-down that changes the held direction sets direction
\* and facing, leaves the initial cooldown armed and attempts one step at
\* once, which is committed exactly when the target is in bounds and has
\* value 1; the per-update stepping commits a step only when the movement
\* timer has counted down to zero, and then re-arms the subsequent cooldown.
FirstStepThenCooldown ==
  [][/\ (game_pc = "running" /\ pending > 0
           /\ player'.moving_direction # player.moving_direction
           /\ player'.moving_direction # NoDirection) =>
          LET d == player'.moving_direction
              target == <<player.grid_y + d[2], player.grid_x + d[1]>>
          IN /\ player'.direction = DirectionName(d[1], d[2])
             /\ player'.move_timer = game_settings.player_move_cooldown_initial
             /\ IF target \in DOMAIN current_map_data.grid
                   /\ current_map_data.grid[target] = 1
                THEN PlayerCell' = target
                ELSE PlayerCell' = PlayerCell
     /\ (game_pc = "running" /\ pending = 0 /\ PlayerPos' # PlayerPos) =>
          /\ player.move_timer <= 1
          /\ player.moving_direction # NoDirection
          /\ PlayerPos' = <<player.grid_x + player.moving_direction[1],
                            player.grid_y + player.moving_direction[2]>>
          /\ player'.move_timer = game_settings.player_move_cooldown_subsequent]_vars

\* C9 witness: a new direction was pressed against a blocked tile, so the
\* player stayed and the initial cooldown is armed
PressedAgainstBuilding ==
  /\ HeldAgainstBuilding
  /\ player.move_timer = game_settings.player_move_cooldown_initial
  /\ player.direction = "up"

\* C11: after the expansion, every tile inside a super-cell has walkability 0
\* and tag water (Lake) or forest_tree (Forest), or walkability 1 and tag
\* grassland (Path); after the decoration pass the walkability is the same,
\* the tag of a Path tile is grassland, tallgrass or flowers, and tallgrass
\* and flowers are only on tiles of walkability 1.
TilesFollowZones ==
  gen_pc \in {"decorate", "done"} =>
    \A cell \in Cells(rows, cols) :
       LET size == map_settings.super_grid_region_size
           inside == cell[1] < (rows \div size) * size /\ cell[2] < (cols \div size) * size
           zone == super_grid[<<cell[1] \div size, cell[2] \div size>>]
       IN /\ inside =>
               IF zone = "lake"
               THEN coordinate_grid[cell] = 0 /\ tile_map[cell] = "water"
               ELSE IF zone = "forest"
               THEN coordinate_grid[cell] = 0 /\ tile_map[cell] = "forest_tree"
               ELSE /\ zone = "path"
                    /\ coordinate_grid[cell] = 1
                    /\ tile_map[cell] \in
                         (IF gen_pc = "done" THEN {"grassland", "tallgrass", "flowers"}
                          ELSE {"grassland"})
          /\ tile_map[cell] \in {"tallgrass", "flowers"} =>
               coordinate_grid[cell] = 1 /\ gen_pc = "done"

\* C11 witness: a decorated world with water, tall grass and flowers
DecoratedWorld ==
  /\ gen_pc = "done"
  /\ \E a, b, c \in DOMAIN tile_map :
       tile_map[a] = "water" /\ tile_map[b] = "tallgrass" /\ tile_map[c] = "flowers"

\* C12: when the world is too small for the region size, generation reports
\* the error and produces no grid, and building placement is never entered
\* with the missing grid.
DegenerateWorldStops ==
  gen_pc = "failed" =>
    /\ gen_message = "error"
    /\ coordinate_grid = NoGrid
    /\ tile_map = NoGrid
    /\ place_pc = "idle"

\* C13: the scene goes from outdoor to indoor only in the handling of an UP
\* key-down, with the interaction cooldown at zero and the player on the
\* entrance tile of a recorded building; that key press leaves the held
\* direction, the facing and the movement timer as they were, and the player
\* is put at the interior's start position instead of being stepped.
EnterOnlyByInteraction ==
  [][(game_pc = "running" /\ current_map_data.type = "outdoor"
        /\ current_map_data'.type = "indoor") =>
       /\ KeyDown("UP")
       /\ player.interaction_cooldown = 0
       /\ \E i \in 1 .. Len(placed_buildings_data) :
            placed_buildings_data[i].entrance_tile_world_coords = PlayerPos
       /\ player'.moving_direction = player.moving_direction
       /\ player'.direction = player.direction
       /\ player'.move_timer = player.move_timer
       /\ PlayerCell' = <<current_map_data'.exit_point[1] - 1,
                          current_map_data'.exit_point[2]>>]_vars

\* C13 witness: a building has just been entered while a direction was held
EnteredWhileHolding ==
  /\ game_pc = "running"
  /\ current_map_data.type = "indoor"
  /\ ticks_since_switch = 0
  /\ player.moving_direction # NoDirection

\* the (dx, dy) of a facing
FacingDelta(direction) ==
  IF direction = "up" THEN <<0, -1>>
  ELSE IF direction = "down" THEN <<0, 1>>
  ELSE IF direction = "left" THEN <<-1, 0>>
  ELSE <<1, 0>>

\* C14 as stated: a scene switch happens only when the tile one step ahead of
\* the player, in the facing direction, is a building's entrance (outdoor) or
\* the door (indoor).
InteractChecksTileAhead ==
  [][(game_pc = "running" /\ current_map_data'.type # current_map_data.type) =>
       LET d == FacingDelta(player.direction)
           ahead == <<player.grid_x + d[1], player.grid_y + d[2]>>
       IN IF current_map_data.type = "outdoor"
          THEN \E i \in 1 .. Len(placed_buildings_data) :
                 placed_buildings_data[i].entrance_tile_world_coords = ahead
          ELSE <<ahead[2], ahead[1]>> = current_map_data.exit_point]_vars

\* C14 as amended: an UP key-down with the interaction cooldown at zero looks
\* at the tile the player stands on, whatever the facing: the scene switches
\* exactly when that tile is a recorded building's entrance (outdoor) or the
\* door (indoor), and the switch leaves facing and held direction alone.
InteractChecksOwnTile ==
  [][/\ (game_pc = "running" /\ current_map_data'.type # current_map_data.type) =>
          /\ KeyDown("UP")
          /\ player.interaction_cooldown = 0
          /\ IF current_map_data.type = "outdoor"
             THEN \E i \in 1 .. Len(placed_buildings_data) :
                    placed_buildings_data[i].entrance_tile_world_coords = PlayerPos
             ELSE PlayerCell = current_map_data.exit_point
          /\ player'.direction = player.direction
          /\ player'.moving_direction = player.moving_direction
     /\ (/\ game_pc = "running"
         /\ pending > 0
         /\ player.interaction_cooldown = 0
         /\ IF current_map_data.type = "outdoor"
            THEN \E i \in 1 .. Len(placed_buildings_data) :
                   placed_buildings_data[i].entrance_tile_world_coords = PlayerPos
            ELSE PlayerCell = current_map_data.exit_point
         /\ KeyDown("UP")) =>
          current_map_data'.type # current_map_data.type]_vars

\* C14 witness: a building has just been entered by a player facing sideways
EnteredFacingSideways ==
  /\ game_pc = "running"
  /\ current_map_data.type = "indoor"
  /\ ticks_since_switch = 0
  /\ player.direction \in {"left", "right"}
  /\ player.moving_direction = NoDirection

\* C15: when no tile of the world has value 1 after building placement, the
\* program stops at the start search: the player and the scene records are
\* never created, the main loop never runs, no event is handled and no update
\* is made; and the program stops there only in that case.
NoStartNoGame ==
  /\ (\A cell \in Cells(rows, cols) : coordinate_grid[cell] # 1) =>
       /\ game_pc \in {"setup", "exited"}
       /\ DOMAIN player = {}
       /\ DOMAIN current_map_data = {}
       /\ DOMAIN outdoor_map_data = {}
       /\ ~running
       /\ pending = 0
       /\ ticks_since_switch = max_interaction_cooldown
  /\ game_pc = "exited" => \A cell \in Cells(rows, cols) : coordinate_grid[cell] # 1

\* C15 witness: the start search has failed on a world without any tile of
\* value 1 and the program has returned
ExitedWithoutStart ==
  /\ game_pc = "exited"
  /\ \A cell \in Cells(rows, cols) : coordinate_grid[cell] = 0

\* C16: a direction release delivered in a frame returns the player to Idle,
\* also in a frame in which a scene switch fires: when the events of the frame
\* that has just ended include a release of an arrow key with no arrow
\* key-down after it, the held direction is None and the movement timer is 0.
ReleaseReturnsToIdle ==
  \A i \in 1 .. Len(dropped) :
     (/\ dropped[i].type = "KEYUP"
      /\ dropped[i].key \in ArrowKeys
      /\ \A j \in i + 1 .. Len(dropped) :
           ~(dropped[j].type = "KEYDOWN" /\ dropped[j].key \in ArrowKeys)) =>
        /\ player.moving_direction = NoDirection
        /\ player.move_timer = 0

\* C17 as stated: with a direction held, every update in which the movement
\* timer reaches zero re-arms the subsequent cooldown, whether the step is
\* committed or blocked.
RearmOnEveryAttempt ==
  [][(game_pc = "running" /\ pending = 0
        /\ player.moving_direction # NoDirection /\ player.move_timer <= 1) =>
       player'.move_timer = game_settings.player_move_cooldown_subsequent]_vars

\* C17 as amended: with a direction held, every update in which the movement
\* timer reaches zero attempts a step; a step onto an in-bounds tile of value
\* 1 is committed and re-arms the subsequent cooldown, a blocked one changes
\* nothing and leaves the timer at zero, so that it is attempted again by the
\* next update; an update in which the timer does not reach zero, or with no
\* direction held, only counts the timer down.
RearmOnCommittedStep ==
  [][(game_pc = "running" /\ pending = 0) =>
       LET d == player.moving_direction
       IN IF d # NoDirection /\ player.move_timer <= 1
          THEN LET target == <<player.grid_y + d[2], player.grid_x + d[1]>>
               IN IF target \in DOMAIN current_map_data.grid
                     /\ current_map_data.grid[target] = 1
                  THEN /\ PlayerCell' = target
                       /\ player'.move_timer = game_settings.player_move_cooldown_subsequent
                  ELSE /\ PlayerCell' = PlayerCell
                       /\ player'.move_timer = 0
          ELSE /\ PlayerCell' = PlayerCell
               /\ player'.move_timer =
                    IF player.move_timer > 0 THEN player.move_timer - 1 ELSE 0]_vars

\* C17 witness: a direction is held against the edge of the map and the
\* movement timer has run out
HeldAgainstEdge ==
  /\ game_pc = "running"
  /\ pending = 0
  /\ player.moving_direction # NoDirection
  /\ player.move_timer = 0
  /\ <<player.grid_y + player.moving_direction[2],
       player.grid_x + player.moving_direction[1]>> \notin DOMAIN current_map_data.grid

\* C18 as stated: an arrow key-down handled while the player is Idle and the
\* tile one step that way is in bounds and has value 1 puts the player on
\* that tile, in the same scene.
TapAlwaysSteps ==
  [][\A key \in ArrowKeys :
       LET d == KeyDelta(key)
           target == <<player.grid_y + d[2], player.grid_x + d[1]>>
       IN (/\ game_pc = "running"
           /\ pending > 0
           /\ player.moving_direction = NoDirection
           /\ target \in DOMAIN current_map_data.grid
           /\ current_map_data.grid[target] = 1
           /\ KeyDown(key)) =>
             /\ current_map_data'.type = current_map_data.type
             /\ PlayerCell' = target]_vars

\* C18 as amended: an arrow key-down that is handled as a move (not taken as
\* an interaction) while the player is Idle gives the player that held
\* direction and the initial cooldown and, when the tile one step that way is
\* in bounds and has value 1, puts the player on that tile, otherwise leaves
\* it in place; no update moves the player before that cooldown has run out;
\* the key-up that ends the held direction leaves the player where it is,
\* with the movement timer at 0; and an update of an Idle player does not
\* move it.
TapStepsOnce ==
  [][game_pc = "running" =>
       IF pending = 0
       THEN (player.move_timer > 1 \/ player.moving_direction = NoDirection) =>
              PlayerCell' = PlayerCell
       ELSE IF player.moving_direction # NoDirection
       THEN player'.moving_direction = NoDirection =>
              /\ PlayerCell' = PlayerCell
              /\ player'.move_timer = 0
       ELSE IF player'.moving_direction # NoDirection
       THEN LET d == player'.moving_direction
                target == <<player.grid_y + d[2], player.grid_x + d[1]>>
            IN /\ player'.move_timer = game_settings.player_move_cooldown_initial
               /\ current_map_data' = current_map_data
               /\ PlayerCell' = IF target \in DOMAIN current_map_data.grid
                                   /\ current_map_data.grid[target] = 1
                                THEN target ELSE PlayerCell
       ELSE current_map_data'.type = current_map_data.type =>
              PlayerCell' = PlayerCell]_vars

\* C18 witness: after a tap and its release the player is Idle, one tile away
\* from the start tile in the direction it faces
TappedAndReleased ==
  /\ game_pc = "running"
  /\ pre_entry = NoEntry
  /\ player.moving_direction = NoDirection
  /\ player.move_timer = 0
  /\ ticks_since_switch = max_interaction_cooldown
  /\ LET start == StartPosition(coordinate_grid, rows, cols)
         d == FacingDelta(player.direction)
     IN PlayerCell = <<start[1] + d[2], start[2] + d[1]>>

\* C19: in every state of the game, a try_move, continuous or not, towards a
\* tile that is outside the grid or whose value is not 1 returns the player
\* as it was: position, movement timer, facing and held direction.
BlockedStepChangesNothing ==
  game_pc = "running" =>
    \A key \in ArrowKeys, is_continuous \in BOOLEAN :
       LET d == KeyDelta(key)
           target == <<player.grid_y + d[2], player.grid_x + d[1]>>
           moved == TryMove(player, d[1], d[2], current_map_data.grid,
                            player.total_rows, player.total_cols, is_continuous)
       IN (target \notin DOMAIN current_map_data.grid
             \/ current_map_data.grid[target] # 1) =>
            /\ moved.grid_x = player.grid_x
            /\ moved.grid_y = player.grid_y
            /\ moved.move_timer = player.move_timer
            /\ moved.direction = player.direction
            /\ moved.moving_direction = player.moving_direction

\* C19 witness: LEFT is held towards a tile of value 2 and the continuous
\* attempts are being rejected
HeldLeftAgainstBuilding ==
  /\ game_pc = "running"
  /\ player.moving_direction = <<-1, 0>>
  /\ player.move_timer = 0
  /\ ticks_since_switch = max_interaction_cooldown
  /\ <<player.grid_y, player.grid_x - 1>> \in DOMAIN current_map_data.grid
  /\ current_map_data.grid[<<player.grid_y, player.grid_x - 1>>] = 2

\* C20: entering a building puts the player on the cell directly above the
\* interior's door, makes the active scene an indoor one whose exit point is
\* that door, on the bottom row at column cols // 2, and sets the interaction
\* cooldown to its maximum.
EntryPutsPlayerAboveDoor ==
  [][(game_pc = "running" /\ current_map_data.type = "outdoor"
        /\ current_map_data'.type = "indoor") =>
       LET door == current_map_data'.exit_point
       IN /\ door = <<interior_settings.interior_rows - 1,
                      interior_settings.interior_cols \div 2>>
          /\ current_map_data'.tiles[door] = "door"
          /\ player'.grid_y = door[1] - 1
          /\ player'.grid_x = door[2]
          /\ player'.interaction_cooldown = max_interaction_cooldown]_vars

\* C20 witness: the player has just entered an interior of three rows and
\* stands on the floor tile above its door
JustEnteredAboveDoor ==
  /\ game_pc = "running"
  /\ current_map_data.type = "indoor"
  /\ ticks_since_switch = 0
  /\ interior_settings.interior_rows = 3
  /\ PlayerCell = <<1, interior_settings.interior_cols \div 2>>
  /\ player.interaction_cooldown = max_interaction_cooldown

\* the grid is that of an interior of nr rows and nc columns: one door, of
\* value 1, on the bottom wall at column nc // 2, 0 on the rest of the
\* perimeter and 1 inside it
WalledRoom(grid, door, nr, nc) ==
  LET perimeter == {cell \in Cells(nr, nc) :
                      cell[1] \in {0, nr - 1} \/ cell[2] \in {0, nc - 1}}
  IN /\ DOMAIN grid = Cells(nr, nc)
     /\ door = <<nr - 1, nc \div 2>>
     /\ door \in perimeter
     /\ {cell \in perimeter : grid[cell] # 0} = {door}
     /\ grid[door] = 1
     /\ \A cell \in Cells(nr, nc) \ perimeter : grid[cell] = 1

\* C21: for every interior size, the generated interior grid is 0 on the
\* perimeter except for exactly one door cell at (rows - 1, cols // 2) of
\* value 1, and 1 on every other cell, and the returned door position is that
\* cell (computed for every size before the game starts); the interior the
\* player is in is such a grid.
InteriorIsWalledRoom ==
  /\ game_pc = "setup" =>
       \A nr, nc \in 1 .. MaxInterior :
          WalledRoom(InteriorGrid(nr, nc), InteriorDoor(nr, nc), nr, nc)
  /\ (game_pc = "running" /\ current_map_data.type = "indoor") =>
       WalledRoom(current_map_data.grid, current_map_data.exit_point,
                  interior_settings.interior_rows, interior_settings.interior_cols)

\* C21 witness: the player is inside an interior that has a floor tile
InsideRoomWithFloor ==
  /\ game_pc = "running"
  /\ current_map_data.type = "indoor"
  /\ interior_settings.interior_rows = 3
  /\ interior_settings.interior_cols = 3
  /\ current_map_data.grid[<<1, 1>>] = 1
  /\ current_map_data.tiles[<<1, 1>>] = "wood_floor"

\* two super-cells share an edge
Adjacent(a, b) ==
  \/ a[1] = b[1] /\ (a[2] = b[2] + 1 \/ b[2] = a[2] + 1)
  \/ a[2] = b[2] /\ (a[1] = b[1] + 1 \/ b[1] = a[1] + 1)

\* the cells of S that can be reached from R through edges inside S
RECURSIVE Closure(_, _)
Closure(S, R) ==
  LET next == R \cup {c \in S : \E d \in R : Adjacent(c, d)}
  IN IF next = R THEN R ELSE Closure(S, next)

\* C22: throughout a blob's frontier loop the painted cells are in bounds,
\* as many as the count, never more than the target, and form a 4-connected
\* set around the origin; when the loop has ended at least one cell is
\* painted, and the frontier is empty or the count equals the target.
BlobConnectedAndBounded ==
  blob_pc \in {"growing", "grown"} =>
    /\ blob.painted \subseteq Cells(blob_dims[1], blob_dims[2])
    /\ Cardinality(blob.painted) = blob.count
    /\ blob.count <= blob_target
    /\ blob.painted # {} =>
         /\ blob_start \in blob.painted
         /\ Closure(blob.painted, {blob_start}) = blob.painted
    /\ blob_pc = "grown" =>
         /\ blob.count >= 1
         /\ blob.q = <<>> \/ blob.count = blob_target

\* C22 witness: a loop has ended on its target with cells still in the
\* frontier and a super-cell left unpainted
StoppedOnTarget ==
  /\ blob_pc = "grown"
  /\ blob.count = blob_target
  /\ blob.q # <<>>
  /\ blob.painted # Cells(blob_dims[1], blob_dims[2])

\* C23: once the game runs, no movement input, tick, entry or exit changes the
\* outdoor walkability grid, the outdoor tile-type grid or the building list:
\* the saved outdoor scene and the building list always hold what generation
\* and placement returned, and so does the active scene whenever it is the
\* outdoor one.
OutdoorWorldUntouched ==
  game_pc \in {"running", "closed"} =>
    /\ outdoor_map_data.map_details.type = "outdoor"
    /\ outdoor_map_data.map_details.grid = coordinate_grid
    /\ outdoor_map_data.map_details.tiles = tile_map
    /\ outdoor_map_data.buildings = placed_buildings_objects
    /\ placed_buildings_data = placed_buildings_objects
    /\ current_map_data.type = "outdoor" =>
         /\ current_map_data.grid = coordinate_grid
         /\ current_map_data.tiles = tile_map

\* C23 witness: the player went into a building, came back out and has walked
\* away from the entrance since
RoamedAfterRoundTrip ==
  /\ game_pc = "running"
  /\ Len(pre_entry) = 1
  /\ current_map_data.type = "outdoor"
  /\ ticks_since_switch > 0
  /\ PlayerPos # pre_entry[1].pos

\* lines 225-248: why a candidate is turned down for one building type, read
\* off the grid: a footprint tile outside the grid or not equal to 1, or the
\* entrance tile outside the grid or not equal to 1
CandidateRejected(cand, name) ==
  LET b_width == BuildingDefs[name].width_tiles
      b_height == BuildingDefs[name].height_tiles
      under == {<<cand[1] + r_offset, cand[2] + c_offset>> :
                  r_offset \in 0 .. b_height - 1, c_offset \in 0 .. b_width - 1}
      entrance == <<cand[1] + b_height, cand[2] + b_width \div 2>>
  IN \/ under \ Cells(rows, cols) # {}
     \/ \E cell \in under \cap Cells(rows, cols) : coordinate_grid[cell] # 1
     \/ entrance \notin Cells(rows, cols)
     \/ entrance \in Cells(rows, cols) /\ coordinate_grid[entrance] # 1

\* C24: placement handles one candidate per step. A candidate rejected for
\* the drawn type leaves the grid and the record list as they were and the
\* loop goes on; an accepted one adds exactly one record. The records never
\* outnumber num_buildings, a tile only ever changes from 1 to 2 and only
\* under the record just added, and a tile that was 0 in the input stays 0.
RejectedCandidateChangesNothing ==
  [][place_pc = "loop" =>
       /\ Len(placed_buildings_objects') <= num_buildings
       /\ \A cell \in Cells(rows, cols) :
            /\ input_grid[cell] = 0 => coordinate_grid'[cell] = 0
            /\ coordinate_grid'[cell] # coordinate_grid[cell] =>
                 /\ coordinate_grid[cell] = 1 /\ coordinate_grid'[cell] = 2
                 /\ Len(placed_buildings_objects') = Len(placed_buildings_objects) + 1
                 /\ cell \in RecordFootprint(
                               placed_buildings_objects'[Len(placed_buildings_objects')])
       /\ IF possible_top_lefts' = possible_top_lefts
          THEN /\ coordinate_grid' = coordinate_grid
               /\ placed_buildings_objects' = placed_buildings_objects
          ELSE LET cand == CHOOSE c \in possible_top_lefts \ possible_top_lefts' : TRUE
               IN /\ possible_top_lefts' = possible_top_lefts \ {cand}
                  /\ place_pc' = "loop"
                  /\ \/ /\ \E name \in DOMAIN BuildingDefs : CandidateRejected(cand, name)
                        /\ coordinate_grid' = coordinate_grid
                        /\ placed_buildings_objects' = placed_buildings_objects
                     \/ \E name \in DOMAIN BuildingDefs :
                          /\ ~CandidateRejected(cand, name)
                          /\ Len(placed_buildings_objects')
                               = Len(placed_buildings_objects) + 1
                          /\ SubSeq(placed_buildings_objects', 1,
                                    Len(placed_buildings_objects))
                               = placed_buildings_objects
                          /\ LET b == placed_buildings_objects'[Len(placed_buildings_objects')]
                             IN /\ b.type = name
                                /\ <<b.grid_y, b.grid_x>> = cand]_vars

\* C24 witness: the loop is still running with one building placed, after at
\* least one other candidate was turned down, on a grid with an impassable tile
RejectedThenWentOn ==
  /\ place_pc = "loop"
  /\ game_pc = "idle"
  /\ Len(placed_buildings_objects) = 1
  /\ num_buildings = 2
  /\ Cardinality(possible_top_lefts) + 2 <= Cardinality(WalkableCells(input_grid))
  /\ possible_top_lefts # {}
  /\ \E cell \in DOMAIN input_grid : input_grid[cell] = 0

\* C25: region generation always terminates: a frontier loop that was entered
\* is left, a call of generate_layered_map reaches its return, and the retry
\* loop never runs more attempts than max_map_generation_attempts.
GenerationTerminates ==
  /\ [](gen_pc # "idle" =>
          /\ attempts <= map_settings.max_map_generation_attempts
          /\ Len(attempt_log) <= map_settings.max_map_generation_attempts)
  /\ (blob_pc = "growing") ~> (blob_pc = "grown")
  /\ (gen_pc = "start") ~> (gen_pc \in {"done", "failed"})

\* C25 witness: generation went on to its end after every attempt of a budget
\* of two failed
BudgetUsedUp ==
  /\ gen_pc = "done"
  /\ ~accepted
  /\ map_settings.max_map_generation_attempts = 2
  /\ Len(attempt_log) = 2

\* C26: every event queued for a frame is handled in that frame, in queue
\* order, whichever scene switch fires on the way: handling one event takes
\* exactly that event off the frame's queue, so the events behind it are
\* still handled.
QueuedEventsAllHandled ==
  [][(game_pc = "running" /\ pending > 0) => pending' = pending - 1]_vars

\* C27: after rasterization every tile of the rows x cols world carries one
\* of the tags water, forest_tree, grassland, tallgrass, flowers, also when
\* rows or cols is not a multiple of the region size, and every tile with
\* walkability 0 is tagged water or forest_tree.
EveryTileTagged ==
  (/\ gen_pc \in {"decorate", "done"}
   /\ rows >= map_settings.super_grid_region_size
   /\ cols >= map_settings.super_grid_region_size) =>
     \A cell \in Cells(rows, cols) :
        /\ tile_map[cell] \in {"water", "forest_tree", "grassland", "tallgrass", "flowers"}
        /\ coordinate_grid[cell] = 0 => tile_map[cell] \in {"water", "forest_tree"}

(* The four specifications                                                 *)

InitGen == GenInit /\ PlaceIdle /\ GameIdle /\ BlobIdle
SpecGen == InitGen /\ [][NextGen]_vars

InitPlace == PlaceInit /\ GenIdle /\ GameIdle /\ BlobIdle
SpecPlace == InitPlace /\ [][NextPlace]_vars

InitGame == GameInit /\ GenIdle /\ BlobIdle
SpecGame == InitGame /\ [][NextGame]_vars

InitBlob ==
  /\ BlobLoopInit
  /\ rows = 0
  /\ cols = 0
  /\ coordinate_grid = NoGrid
  /\ tile_map = NoGrid
  /\ GenIdle
  /\ PlaceIdle
  /\ GameIdle
SpecBlob == InitBlob /\ [][NextBlob]_vars

\* generation with WF on its steps: generate_layered_map is straight-line
\* sequential code, so a step that can be taken is taken; the frontier loop
\* is followed both as one step of GrowZone and iteration by iteration, the
\* latter on the super-grids of TermGrids; the decoration pass has no loop
\* of its own to end and runs with both chances at 0
TermGrids == {<<1, 2>>, <<1, 11>>, <<2, 3>>}
InitGenBlob ==
  \/ InitGen /\ map_settings.tallgrass_probability = 0
  \/ InitBlob /\ blob_dims \in TermGrids
NextGenBlob == NextGen \/ NextBlob
FairSpecGen == InitGenBlob /\ [][NextGenBlob]_vars /\ WF_vars(NextGenBlob)

====
